---- MODULE Spec2Model ----
(***************************************************************************)
(* DocSend-to-PDF Slack bot: the conversion function convertDocSendToPDF   *)
(* in the revisions the repository holds.                                  *)
(*                                                                         *)
(*   "app"   src/app.js               convertDocSendToPDF (92-350)         *)
(*   "p003"  src/unnamed/part_003     convertDocSendToPDF (92-783)         *)
(*   "p004"  src/unnamed/part_004     convertDocSendToPDF (112-947)        *)
(*   "p006"  src/unnamed/part_006     capturePages (133-183) and           *)
(*                                    convertDocSendToPDF (185-698)        *)
(*   "p007"  src/unnamed/part_007     convertDocSendToPDF (112-603)        *)
(*                                                                         *)
(* One behaviour is one invocation.  The site (gate forms, viewer, page    *)
(* label, next-page control) and the request (credentials) are chosen in   *)
(* Init and never change; the browser, the displayed page and the capture  *)
(* list are the state the function drives.                                 *)
(***************************************************************************)
EXTENDS Integers, Sequences, FiniteSets, TLC

\* Largest document, in pages.
MaxPages == 3

\* The capture list and the advance counter are tracked up to ShotCap
\* entries; a loop that does not end keeps running at the cap.
ShotCap == MaxPages + 2

\* Longest capture list handed to createPDFFromScreenshots on its own.
MaxShots == 3

\* Message events delivered to the /slack/events handler.
MaxEvents == 4

\* Requests the app.message handler of part_004 has in flight.
MaxRequests == 3

Revisions == {"app", "p003", "p004", "p006", "p007"}

\* Revisions whose pagination loop advances with the ArrowRight key.
KeyLoopRevs == {"p003", "p006", "p007"}

\* JavaScript values of the page-label read: null (no label element) and
\* NaN (a label element whose text parseInt cannot read).
Null == 0
NaN == -1

\* Rounds of the consent loop.
maxRetries == 10

VARIABLES
    rev,          \* the revision of convertDocSendToPDF that runs
    req,          \* the request: which credentials are available
    doc,          \* the site: gate forms and the paginated viewer
    pc,           \* position in convertDocSendToPDF
    browser,      \* "none" | "open" | "closed"
    gateShown,    \* an email or passcode form is still displayed
    cur,          \* displayed page: 0 = the gate screen, 1..n = a page
    screenshots,  \* the capture list
    lastPage,     \* lastPage / lastPageNumber of the loop
    advances,     \* advance attempts made by the loop
    result,       \* "none" | "Success" | "Failure"
    err,          \* the error that ended the invocation
    via,          \* how Success was produced: "loop" | "single" | "fallback" | "direct"
    overlay,      \* a consent overlay covers the page
    noGateSeen,   \* evaluations in a row in which the code found no gate form
    tried,        \* submission strategies the email step executed, in order
    hit,          \* position in tried of the first one that clicked or pressed
    retryCount,   \* unsuccessful rounds of the consent loop
    cookieBannerFound,  \* the consent loop clicked the accept control
    typedPass,    \* the passcodes typed into passcode fields, in order
    link,         \* the direct download link: "none" | "ok" | "failed"
    chrome,       \* header, footer, toolbar are visible
    flaws,        \* "chrome": a capture was taken with chrome visible;
                  \* "loading": a capture or comparison was made while the
                  \* loading indicator was shown
    apc,          \* position in createPDFFromScreenshots
    shotsIn,      \* its argument, one entry per element
    dimsIn,       \* pixel width and height of each element as an image
    pageBoxes,    \* per page of pdfDoc, its size and where its image is drawn
    ai,           \* its loop index i, counted from 1
    pdfPages,     \* pages of pdfDoc: the element each was drawn from, 0 = blank
    pdfBytes,     \* what pdfDoc.save() produced
    upload,       \* what the handler gave to the Slack upload
    posted,       \* the failure text the handler posted in the thread
    processedMessages,  \* keys of the messages already handled
    started,      \* per key, how often convertDocSendToPDF was started
    running,      \* keys whose conversion is in flight
    delivered,    \* requests to /slack/events received so far
    lastReq,      \* the latest request: its signature, type and message key
    effects,      \* what the handler did for it, in order
    failedKeys,   \* keys whose conversion was rejected
    seen,         \* message and URL of every DocSend message event handled
    startedFor,   \* message and URL of the events that started a conversion
    tpc,          \* per request of the app.message handler, its position
    tempFile,     \* temp.pdf: Null when absent, else the request whose PDF it holds
    sent          \* per request, whose PDF its upload read from temp.pdf

\* State of createPDFFromScreenshots and of the handler that calls it.
pdf == <<apc, shotsIn, dimsIn, pageBoxes, ai, pdfPages, pdfBytes, upload, posted>>

\* What the gate steps write and the loops leave alone.
gate == <<overlay, noGateSeen, tried, hit, retryCount, cookieBannerFound, typedPass, link>>

\* State of the /slack/events handler across messages.
events == <<processedMessages, started, running, delivered, lastReq, effects,
           failedKeys, seen, startedFor>>

\* State of the app.message handler of part_004 across requests.
temp == <<tpc, tempFile, sent>>

\* What convertDocSendToPDF never writes.
env == <<rev, req, doc, pdf, events, temp>>
vars == <<rev, req, doc, pc, browser, gateShown, cur, screenshots, lastPage,
          advances, result, err, via, gate, chrome, flaws, pdf, events, temp>>

\* pageNum++ / pageNumber++, tracked up to ShotCap.
Count(k) == IF k < ShotCap THEN k + 1 ELSE k

(***************************************************************************)
(* The site.                                                               *)
(***************************************************************************)

\* Text of span[aria-label="page number"] through parseInt, on page p.
LabelOf(p) ==
    IF p = 0 THEN Null
    ELSE CASE doc.label = "exposed" -> p
           [] doc.label = "none"    -> Null
           [] doc.label = "nan"     -> NaN

\* The raster the viewer renders for page p; with doc.twin pages 1 and 2
\* render to the same bytes.
RasterOf(p) == IF doc.twin /\ p = 2 THEN 1 ELSE p

\* The viewer's reaction to ArrowRight or to a click on its next control:
\* ignored on the last page and on the gate screen.
Advance(p) == IF p >= 1 /\ p < doc.n THEN p + 1 ELSE p

\* The next-page control is in the DOM on page p.
NextControlOn(p) == p >= 1 /\ doc.nextSel # 0 /\ (p < doc.n \/ doc.nextOnLast)

\* One page.screenshot() of what is displayed.
Shot(p) == [page |-> p, raster |-> RasterOf(p), label |-> LabelOf(p)]

\* The raster of a screenshot without bytes.
ZeroBytes == -1

\* A page.screenshot() that came back with zero bytes.
EmptyShot(p) == [page |-> p, raster |-> ZeroBytes, label |-> LabelOf(p)]

\* Chrome after an advance from page p: a page transition may render it
\* again.
Rerendered(p, shown, again) == shown \/ (again /\ Advance(p) # p)

\* The defects of a capture taken now.
Seen(shown) == IF shown THEN flaws \cup {"chrome"} ELSE flaws

\* The defects of a look at the page right after an advance from page p,
\* when the loading indicator is still there.
Hasty(f, p, slow) == IF slow /\ Advance(p) # p THEN f \cup {"loading"} ELSE f

(***************************************************************************)
(* JavaScript semantics the loops rest on.                                 *)
(***************************************************************************)

\* a === b on numbers and null: NaN equals nothing, itself included.
StrictEq(a, b) == a = b /\ a # NaN

\* if (x) on a number or null.
Truthy(x) == x # Null /\ x # NaN /\ x # 0

\* The comparison with its result dropped: no two rasters ever count as equal.
BufferCompareNever(a, b) == FALSE

\* Buffer.compare(a, b) === 0
BufferCompareEq(a, b) == a.raster = b.raster

AppendCap(s, x) == IF Len(s) < ShotCap THEN Append(s, x) ELSE s

(***************************************************************************)
(* Init                                                                    *)
(***************************************************************************)

Docs ==
    [n : 1..MaxPages, label : {"exposed", "none", "nan"}, twin : BOOLEAN,
     email : {"none", "inline", "iframe"}, pass : BOOLEAN, clears : BOOLEAN,
     submit : {"xpath", "css", "enter", "none"},
     nextSel : 0..2, nextOnLast : BOOLEAN,
     consent : {"none", "ccpa", "onetrust"}, again : BOOLEAN]

Reqs == [email : BOOLEAN, pw : BOOLEAN, special : BOOLEAN]

\* Fields a revision never reads are held at one value.
Relevant(r, q, d) ==
    /\ d.twin => d.n >= 2
    /\ (d.email = "none" /\ ~d.pass) => (d.clears /\ d.submit = "none")
    /\ r # "app" => (d.nextSel = 0 /\ ~d.nextOnLast)
    /\ d.nextSel = 0 => ~d.nextOnLast
    /\ r \notin {"p006", "p007"} => d.label = "none"
    /\ r # "p007" => ~q.special
    /\ r \notin {"p006"} => ~q.pw
    /\ r = "p004" => (d.n = 1 /\ ~d.pass /\ d.clears /\ d.submit = "none")
    /\ d.again => (d.consent # "none" /\ d.email # "none")
    /\ r \notin {"p003", "p006"} => d.consent # "onetrust"
    /\ r = "p004" => d.consent = "none"

\* client_msg_id values ("" when the event carries none) and DocSend URLs.
MsgIds == {"", "m1", "m2"}
Urls == {"u1", "u2"}
Keys == MsgIds \X Urls

\* Slack messages: 1 and 2 were typed in a client and carry the
\* client_msg_id m1 and m2, 3 and 4 carry none.
Msgs == 1..4

\* event.client_msg_id || ''
ClientMsgId(m) ==
    CASE m = 1 -> "m1"
      [] m = 2 -> "m2"
      [] OTHER -> ""

\* Before the first request.
NoReq == [sig |-> "none", type |-> "none", key |-> <<"", "none">>]
Requests == 1..MaxRequests

\* No message handled yet, no request of the app.message handler started.
HandlersIdle ==
    /\ processedMessages = {}
    /\ started = [k \in Keys |-> 0]
    /\ running = {}
    /\ delivered = 0
    /\ lastReq = NoReq
    /\ effects = <<>>
    /\ failedKeys = {}
    /\ seen = {}
    /\ startedFor = {}
    /\ tpc = [r \in Requests |-> "convert"]
    /\ tempFile = Null
    /\ sent = [r \in Requests |-> Null]

Init ==
    /\ HandlersIdle
    /\ rev \in Revisions
    /\ req \in Reqs
    /\ doc \in Docs
    /\ Relevant(rev, req, doc)
    /\ pc = "init"
    /\ browser = "none"
    /\ gateShown = (doc.email # "none" \/ doc.pass)
    /\ cur = IF doc.email # "none" \/ doc.pass THEN 0 ELSE 1
    /\ screenshots = <<>>
    /\ lastPage = Null
    /\ advances = 0
    /\ result = "none"
    /\ err = "none"
    /\ via = "none"
    /\ overlay = (doc.consent # "none")
    /\ noGateSeen = 0
    /\ tried = <<>>
    /\ hit = 0
    /\ retryCount = 0
    /\ cookieBannerFound = FALSE
    /\ typedPass = <<>>
    /\ link = "none"
    /\ chrome = TRUE
    /\ flaws = {}
    /\ apc = "idle"
    /\ shotsIn = <<>>
    /\ dimsIn = <<>>
    /\ pageBoxes = <<>>
    /\ ai = 1
    /\ pdfPages = <<>>
    /\ pdfBytes = "none"
    /\ upload = "none"
    /\ posted = "none"

(***************************************************************************)
(* Exits.                                                                  *)
(***************************************************************************)

\* A throw inside the try block that the finally clause guards.
Throw(e) ==
    /\ result' = "Failure"
    /\ err' = e
    /\ via' = "none"
    /\ pc' = "finally"

\* A throw that no finally clause guards: the function rejects at once.
ThrowUnguarded(e) ==
    /\ result' = "Failure"
    /\ err' = e
    /\ via' = "none"
    /\ pc' = "done"

\* The gate steps taken again where the function returns.
ReturnRetry(how) ==
    /\ pc' = "email"
    /\ UNCHANGED <<result, err, via>>

Return(how) ==
    /\ result' = "Success"
    /\ via' = how
    /\ pc' = "finally"
    /\ UNCHANGED err

\* The loop's own catch clause logs the error and ends the loop; the captures
\* taken so far are returned.
ReturnLogged(e) ==
    /\ result' = "Success"
    /\ via' = "loop"
    /\ err' = e
    /\ pc' = "finally"

Goto(l) ==
    /\ pc' = l
    /\ UNCHANGED <<result, err, via>>

\* The gate screen is replaced by page 1 of the viewer.
GateCleared ==
    /\ gateShown' = FALSE
    /\ cur' = 1

\* The overlay after a submission: the navigation into the viewer brings it
\* back on a site that shows it again.
AfterSubmit(shown) ==
    IF gateShown /\ ~gateShown' THEN shown \/ doc.again ELSE shown

(***************************************************************************)
(* Browser session.                                                        *)
(***************************************************************************)

\* puppeteer.launch(): in p006 inside the try block (browser stays
\* undefined when it throws), in the other revisions in front of it.
Launch ==
    /\ pc = "init"
    /\ \E ok \in BOOLEAN :
         IF ok
         THEN /\ browser' = "open"
              /\ Goto("setup")
         ELSE /\ browser' = browser
              /\ ThrowUnguarded("LaunchFailed")
    /\ UNCHANGED <<env, gate, chrome, flaws, gateShown, cur, screenshots, lastPage, advances>>

\* newPage, viewport, headers, page.goto and the load wait.  p004 runs them
\* inside its outer try block, which has a catch clause and no finally.
Setup ==
    /\ pc = "setup"
    /\ \E ok \in BOOLEAN :
         IF ok THEN Goto("email")
         ELSE IF rev = "p004" THEN ThrowUnguarded("NavigationTimeout")
         ELSE Throw("NavigationTimeout")
    /\ UNCHANGED <<env, gate, chrome, flaws, browser, gateShown, cur, screenshots, lastPage, advances>>

\* finally { await browser.close(); }
Finally ==
    /\ pc = "finally"
    /\ browser' = IF browser = "open" THEN "closed" ELSE browser
    /\ pc' = "done"
    /\ UNCHANGED <<env, gate, chrome, flaws, gateShown, cur, screenshots, lastPage, advances,
                   result, err, via>>

(***************************************************************************)
(* Gate handling, one action per revision.                                 *)
(***************************************************************************)

\* The passcode that came with the request: the value of the pw: token of
\* the message text, null without one.
Supplied(q) == IF q.pw THEN "pw" ELSE "null"

\* part_007 231-232: the passcode is a literal of the code, chosen by the
\* document id in the URL.
DocPassword(q) == IF q.special THEN "landofthefr33" ELSE "null"

\* The form accepts what was entered: the email, and the passcode when the
\* form asks for one.
Accepted(submitted, passTyped) ==
    submitted /\ doc.clears /\ (doc.pass => passTyped)

\* app.js 141-201: the email form is looked for in the main document only;
\* it is filled and submitted with form.submit().
App_EmailForm ==
    /\ pc = "email" /\ rev = "app"
    /\ IF doc.email = "inline"
       THEN IF ~req.email
            THEN Throw("EmailNotSet") /\ UNCHANGED <<gateShown, cur>>
            ELSE \E nav \in BOOLEAN :
                   IF ~nav
                   THEN Throw("NavigationTimeout") /\ UNCHANGED <<gateShown, cur>>
                   ELSE IF Accepted(TRUE, FALSE)
                        THEN GateCleared /\ Goto("content")
                        ELSE Throw("StillOnEmailForm") /\ UNCHANGED <<gateShown, cur>>
       ELSE Goto("content") /\ UNCHANGED <<gateShown, cur>>
    /\ overlay' = AfterSubmit(overlay)
    /\ noGateSeen' = IF doc.email # "inline" \/ ~gateShown' THEN 1 ELSE 0
    /\ UNCHANGED <<env, tried, hit, retryCount, cookieBannerFound, link, typedPass, chrome, flaws, browser, screenshots, lastPage, advances>>

\* part_003 154-228: the email form is required, in a frame or in the main
\* document; the email is typed and the consent loop follows.
P003_EmailForm ==
    /\ pc = "email" /\ rev = "p003"
    /\ IF doc.email = "none"
       THEN Throw("EmailFormNotFound")
       ELSE IF ~req.email
       THEN Throw("EmailNotSet")
       ELSE Goto("consent")
    /\ UNCHANGED <<env, gate, chrome, flaws, browser, gateShown, cur, screenshots,
                   lastPage, advances>>

\* while (!cookieBannerFound && retryCount < maxRetries)
RoundsAlways(k) == TRUE

RoundsLeft(k) == k < maxRetries

\* part_003 250-313 and part_006 587-650, one round of the consent loop: the
\* CCPA frame and its accept button are looked for; a click ends the loop,
\* every error of the round is logged, and a round without a click counts
\* as a retry.  part_003 goes on to the submission, part_006 to the capture.
ConsentRound ==
    /\ pc = "consent" /\ rev \in {"p003", "p006"}
    /\ LET after == IF rev = "p003" THEN "submit" ELSE "capture"
       IN IF overlay /\ doc.consent = "ccpa"
          THEN /\ cookieBannerFound' = TRUE
               /\ overlay' = FALSE
               /\ retryCount' = retryCount
               /\ Goto(after)
          ELSE /\ retryCount' = retryCount + 1
               /\ UNCHANGED <<cookieBannerFound, overlay>>
               /\ IF RoundsLeft(retryCount + 1)
                  THEN Goto("consent") ELSE Goto(after)
    /\ UNCHANGED <<env, noGateSeen, tried, hit, typedPass, link, chrome, flaws, browser,
                   gateShown, cur, screenshots, lastPage, advances>>

\* part_003 322-498: the form is submitted through a text-matched button or
\* a generic submit selector, and the wait that follows looks for a
\* navigation or for content, not for the form.
P003_Submit ==
    /\ pc = "submit" /\ rev = "p003"
    /\ IF doc.submit \notin {"xpath", "css"}
       THEN Throw("SubmitButtonNotFound") /\ UNCHANGED <<gateShown, cur>>
       ELSE IF Accepted(TRUE, FALSE)
       THEN GateCleared /\ Goto("content")
       ELSE \E nav \in BOOLEAN :
              IF nav
              THEN Goto("content") /\ UNCHANGED <<gateShown, cur>>
              ELSE Throw("NavigationTimeout") /\ UNCHANGED <<gateShown, cur>>
    /\ overlay' = AfterSubmit(overlay)
    /\ tried' = IF doc.submit = "xpath" THEN <<"text">> ELSE <<"text", "css">>
    /\ hit' = CASE doc.submit = "xpath" -> 1
                [] doc.submit = "css"   -> 2
                [] OTHER                -> 0
    /\ UNCHANGED <<env, chrome, flaws, noGateSeen, retryCount, cookieBannerFound, link, typedPass,
                   browser, screenshots, lastPage, advances>>

\* part_004 182-232: the email form is required in the main document; then
\* line 231 reads messageText, which is no parameter and no variable in
\* scope of this function.  All of it runs in front of the inner try block
\* whose finally clause closes the browser.
P004_EmailForm ==
    /\ pc = "email" /\ rev = "p004"
    /\ \E iframes \in BOOLEAN :
       IF doc.email # "inline" THEN ThrowUnguarded("EmailFormNotFound")
       ELSE IF ~iframes THEN ThrowUnguarded("Timeout")
       ELSE IF ~req.email THEN ThrowUnguarded("EmailNotSet")
       ELSE ThrowUnguarded("ReferenceError")
    /\ UNCHANGED <<env, gate, chrome, flaws, browser, gateShown, cur, screenshots, lastPage, advances>>

\* part_006 255-418: the email form in the login iframe or inline; every
\* failure of the submission is logged and the function goes on.  The
\* OneTrust banner is removed after the email is typed.  In the iframe the
\* Enter block follows the selector loop whether or not a selector clicked;
\* its key press goes through loginFrame.keyboard, which a Frame does not
\* have, so it throws and is logged.
P006_EmailForm ==
    /\ pc = "email" /\ rev = "p006"
    /\ IF doc.email = "none"
       THEN Goto("pass") /\ UNCHANGED <<gateShown, cur>>
       ELSE IF ~req.email
       THEN Throw("TypeError") /\ UNCHANGED <<gateShown, cur>>
       ELSE LET passTyped == req.pw /\ doc.pass
                submitted == IF doc.email = "iframe"
                             THEN doc.submit \in {"xpath", "css"}
                             ELSE doc.submit = "xpath"
            IN /\ IF Accepted(submitted, passTyped)
                  THEN GateCleared
                  ELSE UNCHANGED <<gateShown, cur>>
               /\ Goto("pass")
    /\ LET removed == doc.email # "none" /\ req.email /\ doc.consent = "onetrust"
       IN overlay' = AfterSubmit(IF removed THEN FALSE ELSE overlay)
    /\ noGateSeen' = IF doc.email = "none" THEN 1 ELSE 0
    /\ IF doc.email # "none" /\ req.email
       THEN /\ tried' = IF doc.submit = "xpath" \/ doc.email = "inline"
                        THEN <<"text">> ELSE <<"text", "css", "enter">>
            /\ hit' = CASE doc.submit = "xpath"                        -> 1
                         [] doc.submit = "css" /\ doc.email = "iframe" -> 2
                         [] OTHER                                       -> 0
       ELSE UNCHANGED <<tried, hit>>
    /\ typedPass' = IF doc.email # "none" /\ req.email /\ req.pw /\ doc.pass
                    THEN Append(typedPass, Supplied(req)) ELSE typedPass
    /\ UNCHANGED <<env, chrome, flaws, retryCount, cookieBannerFound, link,
                   browser, screenshots, lastPage, advances>>

\* part_006 420-586: the passcode workflow runs whenever a passcode came
\* with the request; the consent loop follows.
P006_Passcode ==
    /\ pc = "pass" /\ rev = "p006"
    /\ IF ~req.pw
       THEN Goto("consent") /\ UNCHANGED <<gateShown, cur>>
       ELSE IF ~(gateShown /\ doc.pass)
       THEN Throw("PasscodeFieldNotFound") /\ UNCHANGED <<gateShown, cur>>
       ELSE IF doc.submit # "xpath"
       THEN Goto("consent") /\ UNCHANGED <<gateShown, cur>>
       ELSE IF Accepted(TRUE, TRUE)
       THEN GateCleared /\ Goto("consent")
       ELSE Throw("NavigationTimeout") /\ UNCHANGED <<gateShown, cur>>
    /\ overlay' = AfterSubmit(overlay)
    /\ noGateSeen' = IF req.pw /\ gateShown /\ doc.pass THEN 0 ELSE noGateSeen
    /\ typedPass' = IF req.pw /\ gateShown /\ doc.pass
                    THEN Append(typedPass, Supplied(req)) ELSE typedPass
    /\ UNCHANGED <<env, tried, hit, retryCount, cookieBannerFound, link, chrome, flaws, browser, screenshots, lastPage, advances>>

\* part_007 182-307: the email form is required in the main document, and at
\* least one iframe (the wait for iframes throws after 30 s); the passcode is
\* typed for one hard-coded document id; after the submission
\* the form must be gone.
P007_EmailForm ==
    /\ pc = "email" /\ rev = "p007"
    /\ \E iframes \in BOOLEAN :
       IF doc.email # "inline"
       THEN Throw("EmailFormNotFound") /\ UNCHANGED <<gateShown, cur>>
       ELSE IF ~iframes
       THEN Throw("Timeout") /\ UNCHANGED <<gateShown, cur>>
       ELSE IF ~req.email
       THEN Throw("EmailNotSet") /\ UNCHANGED <<gateShown, cur>>
       ELSE IF req.special /\ ~doc.pass
       THEN Throw("PasswordEntryFailed") /\ UNCHANGED <<gateShown, cur>>
       ELSE IF Accepted(doc.submit \in {"css", "enter"}, req.special)
       THEN GateCleared /\ Goto("content")
       ELSE Throw("FormStillPresent") /\ UNCHANGED <<gateShown, cur>>
    /\ overlay' = AfterSubmit(overlay)
    /\ noGateSeen' = IF gateShown /\ ~gateShown' THEN 1 ELSE 0
    /\ IF pc' = "content" \/ err' = "FormStillPresent"
       THEN /\ tried' = IF doc.submit = "css" THEN <<"css">> ELSE <<"css", "enter">>
            /\ hit' = IF doc.submit = "css" THEN 1 ELSE 2
       ELSE UNCHANGED <<tried, hit>>
    /\ typedPass' = IF req.special /\ doc.pass
                       /\ (pc' = "content" \/ err' = "FormStillPresent")
                    THEN Append(typedPass, DocPassword(req)) ELSE typedPass
    /\ UNCHANGED <<env, chrome, flaws, retryCount, cookieBannerFound, link,
                   browser, screenshots, lastPage, advances>>

(***************************************************************************)
(* Between the gate and the loop.                                          *)
(***************************************************************************)

\* app.js 203-252: wait for one of the content selectors.
App_Content ==
    /\ pc = "content" /\ rev = "app"
    /\ \E found \in BOOLEAN :
         IF found THEN Goto("capture") ELSE Throw("ContentNotFound")
    /\ UNCHANGED <<env, gate, chrome, flaws, browser, gateShown, cur, screenshots, lastPage, advances>>

\* A failed download rethrown.
DownloadedOrThrown(l) == l # "none"

\* part_003 536-557: the function returns the downloaded buffer when the
\* response is ok and its body is a non-empty Buffer; every other outcome
\* is caught at 558 and logged.
Downloaded(l) == l = "ok"

\* part_003 500-572: a direct PDF link, when one is found and its download
\* succeeds, is returned in place of the captures.
P003_DirectLink ==
    /\ pc = "content" /\ rev = "p003"
    /\ \E l \in {"none", "ok", "failed"} :
         /\ link' = l
         /\ IF Downloaded(l) THEN Return("direct") ELSE Goto("loop")
    /\ UNCHANGED <<env, overlay, noGateSeen, tried, hit, retryCount,
                   cookieBannerFound, typedPass>>
    /\ UNCHANGED <<chrome, flaws, browser, gateShown, cur, screenshots, lastPage, advances>>

\* part_007 309-445: wait for .preso-view.page-view, hide the chrome.
P007_Content ==
    /\ pc = "content" /\ rev = "p007"
    /\ \E found \in BOOLEAN :
         IF found THEN Goto("loop") /\ chrome' = FALSE
         ELSE Throw("Timeout") /\ chrome' = chrome
    /\ UNCHANGED <<env, gate, flaws, browser, gateShown, cur, screenshots, lastPage, advances>>

(***************************************************************************)
(* Pagination loops.                                                       *)
(***************************************************************************)

\* app.js 254-275 and 325-340: look for a next-page control; without one
\* the document is captured as a single page.
App_FindNext ==
    /\ pc = "capture" /\ rev = "app"
    /\ IF NextControlOn(cur)
       THEN Goto("loop") /\ UNCHANGED screenshots
       ELSE \E valid \in BOOLEAN :
              IF valid
              THEN screenshots' = AppendCap(screenshots, Shot(cur)) /\ Return("single")
              ELSE Throw("CaptureFailed") /\ UNCHANGED screenshots
    /\ flaws' = IF result' = "Success" THEN Seen(chrome) ELSE flaws
    /\ UNCHANGED <<env, gate, chrome, browser, gateShown, cur, lastPage, advances>>

\* app.js 282-310, first half of an iteration: capture, then click the
\* control that the first selector finds.
App_Loop ==
    /\ pc = "loop" /\ rev = "app"
    /\ \E valid \in BOOLEAN :
         IF ~valid
         THEN /\ Throw("CaptureFailed")
              /\ UNCHANGED <<screenshots, cur, advances, chrome, flaws>>
         ELSE LET clicked == doc.nextSel = 1 /\ NextControlOn(cur)
              IN /\ screenshots' = AppendCap(screenshots, Shot(cur))
                 /\ cur' = IF clicked THEN Advance(cur) ELSE cur
                 /\ advances' = Count(advances)
                 /\ Goto("wait")
                 /\ \E again, slow \in BOOLEAN :
                      /\ chrome' = Rerendered(cur, chrome, again /\ clicked)
                      /\ flaws' = Hasty(Seen(chrome), cur, slow /\ clicked)
    /\ UNCHANGED <<env, gate, browser, gateShown, lastPage>>

\* app.js 312-319, second half: go on while the first selector still finds
\* a control.  page.$ returns a new handle on every call, so
\* newNextButton === nextButton is false whenever a control is found.
App_CheckNext ==
    /\ pc = "wait" /\ rev = "app"
    /\ LET newNextButton == doc.nextSel = 1 /\ NextControlOn(cur)
       IN IF ~newNextButton THEN Return("loop") ELSE Goto("loop")
    /\ UNCHANGED <<env, gate, chrome, flaws, browser, gateShown, cur, screenshots, lastPage, advances>>

\* part_003 574-627, one iteration: capture, ArrowRight, compare the raster
\* before with the raster after.  An invalid screenshot throws; an error of
\* the key press or of the second screenshot is logged and ends the loop.
P003_Loop ==
    /\ pc = "loop" /\ rev = "p003"
    /\ \E outcome \in {"ok", "invalid", "naverror"} :
         CASE outcome = "invalid" ->
                /\ Throw("CaptureFailed")
                /\ UNCHANGED <<screenshots, cur, advances, chrome, flaws>>
           [] outcome = "naverror" ->
                /\ screenshots' = AppendCap(screenshots, Shot(cur))
                /\ advances' = Count(advances)
                /\ ReturnLogged("NavigationError")
                /\ flaws' = Seen(chrome)
                /\ UNCHANGED <<cur, chrome>>
           [] outcome = "ok" ->
                LET screenshot    == Shot(cur)
                    newScreenshot == Shot(Advance(cur))
                IN /\ screenshots' = AppendCap(screenshots, screenshot)
                   /\ cur' = Advance(cur)
                   /\ advances' = Count(advances)
                   /\ IF BufferCompareEq(screenshot, newScreenshot)
                      THEN Return("loop")
                      ELSE Goto("loop")
                   /\ \E again, slow \in BOOLEAN :
                        /\ chrome' = Rerendered(cur, chrome, again)
                        /\ flaws' = Hasty(Seen(chrome), cur, slow)
    /\ UNCHANGED <<env, gate, browser, gateShown, lastPage>>

\* part_006 134-162, capturePages up to the loop: hide the chrome, click,
\* hide the OneTrust banner, wait for the loading indicator to go.  A throw in capturePages is caught
\* by convertDocSendToPDF at line 661.
P006_CaptureStart ==
    /\ pc = "capture" /\ rev = "p006"
    /\ \E settled \in BOOLEAN :
         IF settled THEN Goto("loop") ELSE Goto("fallback")
    /\ lastPage' = Null
    /\ overlay' = IF doc.consent = "onetrust" THEN FALSE ELSE overlay
    /\ chrome' = FALSE
    /\ UNCHANGED <<env, noGateSeen, tried, hit, retryCount, cookieBannerFound, link, typedPass, flaws, browser, gateShown, cur, screenshots, advances>>

\* part_006 163-174, one iteration of capturePages up to the key press:
\* the screenshot is pushed, then the label is read and compared with
\* lastPage.
P006_Loop ==
    /\ pc = "loop" /\ rev = "p006"
    /\ LET current == LabelOf(cur)
       IN /\ \E shot \in {Shot(cur), EmptyShot(cur)} :
               screenshots' = AppendCap(screenshots, shot)
          /\ flaws' = Seen(chrome)
          /\ IF StrictEq(current, lastPage)
             THEN /\ Return("loop")
                  /\ UNCHANGED <<lastPage, cur, advances, chrome>>
             ELSE /\ lastPage' = current
                  /\ cur' = Advance(cur)
                  /\ advances' = Count(advances)
                  /\ Goto("wait")
                  /\ \E again \in BOOLEAN :
                       chrome' = Rerendered(cur, chrome, again)
    /\ UNCHANGED <<env, gate, browser, gateShown>>

\* part_006 175-179: wait until no loading indicator is shown; the wait
\* throws after 30 s.
P006_Settle ==
    /\ pc = "wait" /\ rev = "p006"
    /\ \E settled \in BOOLEAN :
         IF settled THEN Goto("loop") ELSE Goto("fallback")
    /\ UNCHANGED <<env, gate, chrome, flaws, browser, gateShown, cur, screenshots, lastPage, advances>>

\* The capture taken up again where the fallback snapshot fails.
FallbackAgain(e) ==
    /\ pc' = "capture"
    /\ UNCHANGED <<result, err, via>>

\* part_006 685-688: the fallback's own catch clause throws a new error,
\* which the outer catch rethrows.
FallbackThrows(e) == Throw(e)

\* part_006 661-689: one snapshot of whatever is rendered.
P006_Fallback ==
    /\ pc = "fallback" /\ rev = "p006"
    /\ \E ok \in BOOLEAN :
         IF ok
         THEN /\ \E shot \in {Shot(cur), EmptyShot(cur)} : screenshots' = <<shot>>
              /\ Return("fallback")
         ELSE FallbackThrows("FallbackFailed") /\ UNCHANGED screenshots
    /\ chrome' = FALSE
    /\ UNCHANGED <<env, gate, flaws, browser, gateShown, cur, lastPage, advances>>

\* part_007 447-593, one iteration: read the label and stop when it is the
\* one of the previous iteration; capture; ArrowRight; then the new label,
\* or without one the new raster, decides whether to go on.  An invalid
\* screenshot throws; an error after the key press is logged and ends the
\* loop.
P007_Loop ==
    /\ pc = "loop" /\ rev = "p007"
    /\ LET currentPageNumber == LabelOf(cur)
           lastPageNumber    == IF Truthy(currentPageNumber)
                                THEN currentPageNumber ELSE lastPage
       IN IF Truthy(currentPageNumber) /\ StrictEq(lastPage, currentPageNumber)
          THEN /\ Return("loop")
               /\ UNCHANGED <<screenshots, cur, lastPage, advances, chrome, flaws>>
          ELSE \E outcome \in {"ok", "invalid", "naverror"} :
                 CASE outcome = "invalid" ->
                        /\ Throw("CaptureFailed")
                        /\ lastPage' = lastPageNumber
                        /\ chrome' = FALSE
                        /\ UNCHANGED <<screenshots, cur, advances, flaws>>
                   [] outcome = "naverror" ->
                        /\ lastPage' = lastPageNumber
                        /\ screenshots' = AppendCap(screenshots, Shot(cur))
                        /\ advances' = Count(advances)
                        /\ ReturnLogged("NavigationError")
                        /\ chrome' = FALSE
                        /\ UNCHANGED <<cur, flaws>>
                   [] outcome = "ok" ->
                        LET screenshot    == Shot(cur)
                            newPageNumber == LabelOf(Advance(cur))
                            newScreenshot == Shot(Advance(cur))
                            same == IF Truthy(newPageNumber)
                                    THEN StrictEq(newPageNumber, currentPageNumber)
                                    ELSE BufferCompareEq(screenshot, newScreenshot)
                        IN /\ lastPage' = lastPageNumber
                           /\ screenshots' = AppendCap(screenshots, screenshot)
                           /\ cur' = Advance(cur)
                           /\ advances' = Count(advances)
                           /\ IF same THEN Return("loop") ELSE Goto("loop")
                           /\ \E again, slow \in BOOLEAN :
                                /\ chrome' = Rerendered(cur, FALSE, again)
                                /\ flaws' = Hasty(Seen(FALSE), cur, slow)
    /\ UNCHANGED <<env, gate, browser, gateShown>>

(***************************************************************************)
(* createPDFFromScreenshots and the handler that calls it.                 *)
(***************************************************************************)

\* What one element of the argument can be: a PNG or JPEG image, a non-empty
\* buffer that is no image, an empty buffer, or (when the argument is itself
\* a Buffer) one of its bytes, a number.
Kinds == {"png", "jpeg", "corrupt", "empty"}

\* Pixel sizes of images.
Sizes == {[w |-> 2, h |-> 1], [w |-> 2, h |-> 2], [w |-> 1, h |-> 2]}

\* The size of an element that is never decoded.
NoSize == [w |-> 0, h |-> 0]

\* A fullPage screenshot is as wide as the viewport and as high as the
\* document rendered on the page.
SizeOf(shot) ==
    IF shot.raster = ZeroBytes THEN NoSize
    ELSE [w |-> 2, h |-> IF shot.raster % 2 = 0 THEN 1 ELSE 2]

\* Every page of one fixed size.
DrawPageFixed(boxes, d) ==
    Append(boxes, [w |-> 2, h |-> 2, x |-> 0, y |-> 0, iw |-> d.w, ih |-> d.h])

\* addPage([image.width, image.height]) and drawImage(image, {x: 0, y: 0,
\* width: image.width, height: image.height}).
DrawPage(boxes, d) ==
    Append(boxes, [w |-> d.w, h |-> d.h, x |-> 0, y |-> 0, iw |-> d.w, ih |-> d.h])

\* The blank page save() adds: no image on it.
BlankPage == [w |-> 0, h |-> 0, x |-> 0, y |-> 0, iw |-> 0, ih |-> 0]

\* The image type page.screenshot is asked for.
ShotKind(r) == IF r \in {"app", "p003"} THEN "png" ELSE "jpeg"

\* The check in front of the embedding; app.js has none.
ValidBuffer(r, k) == r = "app" \/ k \notin {"empty", "byte"}

\* A decoder that accepts every element.
DecodesAny(r, k) == TRUE

\* pdfDoc.embedPng / pdfDoc.embedJpg reads the element: app.js tries PNG and
\* then JPEG, part_003 PNG only, the other revisions JPEG only.
Decodes(r, k) ==
    CASE r = "app"  -> k \in {"png", "jpeg"}
      [] r = "p003" -> k = "png"
      [] OTHER      -> k = "jpeg"

\* The page left out.
AddPageNone(pages, i) == pages

\* pdfDoc.addPage([width, height]) and page.drawImage for element i.
AddPage(pages, i) == Append(pages, i)

\* pdfDoc.save() adds a blank page to a document without pages unless it is
\* called with addDefaultPage: false.
AddDefaultPage(r) == r \in {"app", "p003"}

\* The result of save() is validated before it is returned; app.js returns
\* it as it is.
ValidatesPdf(r) == r # "app"

\* length # 0, length >= 100 and the first five bytes hold %PDF-.
PdfBufferOk(b) == b = "ok"

\* The handler's then-callback calls createPDFFromScreenshots with whatever
\* convertDocSendToPDF resolved to: the capture list, or in part_003 the
\* downloaded Buffer, whose elements are its bytes.
Handler_Then ==
    /\ pc = "done" /\ result = "Success" /\ apc = "idle"
    /\ apc' = "embed"
    /\ shotsIn' = IF via = "direct"
                  THEN <<"byte", "byte">>
                  ELSE [i \in 1..Len(screenshots) |->
                          IF screenshots[i].raster = ZeroBytes
                          THEN "empty" ELSE ShotKind(rev)]
    /\ dimsIn' = IF via = "direct"
                 THEN <<NoSize, NoSize>>
                 ELSE [i \in 1..Len(screenshots) |-> SizeOf(screenshots[i])]
    /\ pageBoxes' = <<>>
    /\ ai' = 1
    /\ pdfPages' = <<>>
    /\ UNCHANGED <<rev, req, doc, events, temp, pc, browser, gateShown, cur, screenshots,
                   lastPage, advances, result, err, via, gate, chrome, flaws,
                   pdfBytes, upload, posted>>

\* One iteration of the for loop: validate, embed, add the page.
CreatePDF_Page ==
    /\ apc = "embed" /\ ai <= Len(shotsIn)
    /\ IF ValidBuffer(rev, shotsIn[ai]) /\ Decodes(rev, shotsIn[ai])
       THEN /\ pdfPages' = AddPage(pdfPages, ai)
            /\ pageBoxes' = DrawPage(pageBoxes, dimsIn[ai])
            /\ ai' = ai + 1
            /\ apc' = apc
       ELSE /\ apc' = "thrown"
            /\ UNCHANGED <<pdfPages, pageBoxes, ai>>
    /\ UNCHANGED <<rev, req, doc, events, temp, pc, browser, gateShown, cur, screenshots,
                   lastPage, advances, result, err, via, gate, chrome, flaws,
                   shotsIn, dimsIn, pdfBytes, upload, posted>>

\* After the loop: serialize, validate, return.
CreatePDF_Save ==
    /\ apc = "embed" /\ ai > Len(shotsIn)
    /\ pdfPages' = IF AddDefaultPage(rev) /\ Len(pdfPages) = 0
                   THEN <<0>> ELSE pdfPages
    /\ pageBoxes' = IF AddDefaultPage(rev) /\ Len(pdfPages) = 0
                    THEN <<BlankPage>> ELSE pageBoxes
    /\ \E bytes \in {"ok", "empty", "short", "nomagic"} :
         IF ValidatesPdf(rev) /\ ~PdfBufferOk(bytes)
         THEN apc' = "thrown" /\ pdfBytes' = pdfBytes
         ELSE apc' = "returned" /\ pdfBytes' = bytes
    /\ UNCHANGED <<rev, req, doc, events, temp, pc, browser, gateShown, cur, screenshots,
                   lastPage, advances, result, err, via, gate, chrome, flaws,
                   shotsIn, dimsIn, ai, upload, posted>>

\* The handler uploads the buffer createPDFFromScreenshots returned; a throw
\* of createPDFFromScreenshots goes to the catch callback, which posts the
\* error message.
Handler_Upload ==
    /\ pc = "done" /\ result = "Success" /\ apc = "returned" /\ upload = "none"
    /\ \E ok \in BOOLEAN : upload' = IF ok THEN "assembled" ELSE "failed"
    /\ UNCHANGED <<rev, req, doc, events, temp, pc, browser, gateShown, cur, screenshots,
                   lastPage, advances, result, err, via, gate, chrome, flaws,
                   apc, shotsIn, dimsIn, pageBoxes, ai, pdfPages, pdfBytes, posted>>

\* The text of the failure message: part_006 posts one fixed sentence, the
\* other revisions append error.message to it.
ErrorText(r, e) == IF r = "p006" THEN "Sorry" ELSE e

\* The handler's catch callback: a rejection of convertDocSendToPDF, a throw
\* of createPDFFromScreenshots or a failed upload is answered with one
\* message in the thread.
Handler_Catch ==
    /\ pc = "done" /\ posted = "none"
    /\ result = "Failure" \/ apc = "thrown" \/ upload = "failed"
    /\ posted' = ErrorText(rev, CASE result = "Failure" -> err
                                  [] apc = "thrown"     -> "AssemblyFailed"
                                  [] OTHER              -> "UploadFailed")
    /\ UNCHANGED <<rev, req, doc, events, temp, pc, browser, gateShown, cur, screenshots,
                   lastPage, advances, result, err, via, gate, chrome, flaws,
                   apc, shotsIn, dimsIn, pageBoxes, ai, pdfPages, pdfBytes, upload>>

(***************************************************************************)
(* The /slack/events handler across messages.                              *)
(***************************************************************************)

\* Message events: the subtype decides where text and client_msg_id are
\* read (event, event.message or event.previous_message); msg is the message
\* they belong to and url what its text holds, "none" for a text without a
\* DocSend link.
Events ==
    [subtype : {"plain", "message_changed", "message_deleted"},
     msg : Msgs, url : Urls \cup {"none"}]

\* The signature headers of a request: absent, a timestamp more than 300 s
\* off, a signature of another length than the computed one, one of the
\* same length with other characters, or the computed one.
Sigs == {"missing", "stale", "wrongLength", "wrong", "valid"}

\* req.body.type
Types == {"url_verification", "event_callback"}

\* verifySlackRequest: false for missing headers and for a stale timestamp;
\* crypto.timingSafeEqual compares buffers of one length and throws a
\* RangeError for buffers of different lengths.
VerifySlackRequest(sig) ==
    CASE sig \in {"missing", "stale", "wrong"} -> "false"
      [] sig = "wrongLength"                   -> "throws"
      [] sig = "valid"                         -> "true"

\* `${messageId}_${docsendUrl}`
MessageKey(e) == <<ClientMsgId(e.msg), e.url>>

\* The membership test dropped.
NeverProcessed(k) == FALSE

\* processedMessages.has(messageKey)
AlreadyProcessed(k) == k \in processedMessages

\* The acknowledgement left to the end of the processing.
AcknowledgeLater(fx) == fx

\* res.status(200).send()
Acknowledge(fx) == Append(fx, "200")

\* The key dropped when the conversion fails.
ForgetKey(keys, k) == keys \ {k}

\* The catch callback posts the failure message and leaves
\* processedMessages as it is.
AfterFailure(keys, k) == keys

\* One request handled, from the signature check to the call of
\* convertDocSendToPDF: the handler is synchronous up to there.  A throw
\* of the handler is answered by Express with status 500.
HandleEvent ==
    /\ delivered < MaxEvents
    /\ delivered' = delivered + 1
    /\ \E sig \in Sigs, type \in Types :
         IF VerifySlackRequest(sig) # "true"
         THEN /\ lastReq' = [sig |-> sig, type |-> type, key |-> NoReq.key]
              /\ effects' = IF VerifySlackRequest(sig) = "false"
                            THEN <<"401">> ELSE <<"500">>
              /\ UNCHANGED <<processedMessages, started, running, seen, startedFor>>
         ELSE IF type = "url_verification"
         THEN /\ lastReq' = [sig |-> sig, type |-> type, key |-> NoReq.key]
              /\ effects' = <<"challenge">>
              /\ UNCHANGED <<processedMessages, started, running, seen, startedFor>>
         ELSE \E e \in Events :
              /\ lastReq' = [sig |-> sig, type |-> type, key |-> MessageKey(e)]
              /\ IF e.url = "none"
                 THEN /\ effects' = Acknowledge(<<>>)
                      /\ UNCHANGED <<processedMessages, started, running, seen, startedFor>>
                 ELSE IF AlreadyProcessed(MessageKey(e))
                 THEN /\ effects' = Append(Acknowledge(<<>>), "skip")
                      /\ seen' = seen \cup {<<e.msg, e.url>>}
                      /\ UNCHANGED <<processedMessages, started, running, startedFor>>
                 ELSE /\ effects' = Acknowledge(<<>>) \o <<"add", "start">>
                      /\ seen' = seen \cup {<<e.msg, e.url>>}
                      /\ startedFor' = startedFor \cup {<<e.msg, e.url>>}
                      /\ processedMessages' = processedMessages \cup {MessageKey(e)}
                      /\ started' = [started EXCEPT ![MessageKey(e)] = @ + 1]
                      /\ running' = running \cup {MessageKey(e)}
    /\ UNCHANGED failedKeys
    /\ UNCHANGED <<rev, req, doc, pc, browser, gateShown, cur, screenshots,
                   lastPage, advances, result, err, via, gate, chrome, flaws,
                   pdf, temp>>

\* The promise of one conversion settles and its callbacks have run: the
\* upload, or the failure message of the catch callback.
ConversionSettles ==
    /\ \E k \in running, ok \in BOOLEAN :
         /\ running' = running \ {k}
         /\ failedKeys' = IF ok THEN failedKeys ELSE failedKeys \cup {k}
         /\ processedMessages' = IF ok THEN processedMessages
                                 ELSE AfterFailure(processedMessages, k)
    /\ UNCHANGED <<rev, req, doc, pc, browser, gateShown, cur, screenshots,
                   lastPage, advances, result, err, via, gate, chrome, flaws,
                   pdf, temp, started, delivered, lastReq, effects, seen,
                   startedFor>>

(***************************************************************************)
(* The app.message handler of part_004 (1262-1302) across requests.        *)
(***************************************************************************)

\* await convertDocSendToPDF(docSendUrl) resolves or rejects; the PDF is
\* written to temp.pdf and files.upload is called with a read stream on it.
Temp_Write ==
    /\ \E r \in Requests :
         /\ tpc[r] = "convert"
         /\ \E ok \in BOOLEAN :
              IF ok
              THEN /\ tempFile' = r
                   /\ tpc' = [tpc EXCEPT ![r] = "written"]
              ELSE /\ tempFile' = tempFile
                   /\ tpc' = [tpc EXCEPT ![r] = "failed"]
    /\ UNCHANGED <<rev, req, doc, pc, browser, gateShown, cur, screenshots,
                   lastPage, advances, result, err, via, gate, chrome, flaws,
                   pdf, events, sent>>

\* The read stream opens temp.pdf and the upload sends what it reads.
Temp_Read ==
    /\ \E r \in Requests :
         /\ tpc[r] = "written"
         /\ tpc' = [tpc EXCEPT ![r] = "unlink"]
         /\ sent' = [sent EXCEPT ![r] = tempFile]
    /\ UNCHANGED <<rev, req, doc, pc, browser, gateShown, cur, screenshots,
                   lastPage, advances, result, err, via, gate, chrome, flaws,
                   pdf, events, tempFile>>

\* finally { fs.unlinkSync(tempFilePath) }: throws when the file is gone.
Temp_Unlink ==
    /\ \E r \in Requests :
         /\ tpc[r] = "unlink"
         /\ tpc' = [tpc EXCEPT ![r] =
                       IF tempFile = Null \/ sent[r] = Null
                       THEN "failed" ELSE "done"]
    /\ tempFile' = Null
    /\ UNCHANGED <<rev, req, doc, pc, browser, gateShown, cur, screenshots,
                   lastPage, advances, result, err, via, gate, chrome, flaws,
                   pdf, events, sent>>

(***************************************************************************)
(* Specifications.                                                         *)
(***************************************************************************)

Next ==
    \/ Launch
    \/ Setup
    \/ App_EmailForm
    \/ P003_EmailForm
    \/ ConsentRound
    \/ P003_Submit
    \/ P004_EmailForm
    \/ P006_EmailForm
    \/ P006_Passcode
    \/ P007_EmailForm
    \/ App_Content
    \/ P003_DirectLink
    \/ P007_Content
    \/ App_FindNext
    \/ App_Loop
    \/ App_CheckNext
    \/ P003_Loop
    \/ P006_CaptureStart
    \/ P006_Loop
    \/ P006_Settle
    \/ P006_Fallback
    \/ P007_Loop
    \/ Finally
    \/ Handler_Then
    \/ CreatePDF_Page
    \/ CreatePDF_Save
    \/ Handler_Upload
    \/ Handler_Catch

Spec == Init /\ [][Next]_vars

\* Every await of the function resumes: the waits are all time-bounded.
LiveSpec == Spec /\ WF_vars(Next)

\* createPDFFromScreenshots on its own: every revision, every list of up to
\* MaxShots elements.
PdfInit ==
    /\ HandlersIdle
    /\ rev \in Revisions
    /\ req = [email |-> TRUE, pw |-> FALSE, special |-> FALSE]
    /\ doc = [n |-> 1, label |-> "none", twin |-> FALSE, email |-> "none",
              pass |-> FALSE, clears |-> TRUE, submit |-> "none", nextSel |-> 0,
              nextOnLast |-> FALSE, consent |-> "none", again |-> FALSE]
    /\ pc = "done"
    /\ browser = "closed"
    /\ gateShown = FALSE
    /\ cur = 1
    /\ screenshots = <<>>
    /\ lastPage = Null
    /\ advances = 0
    /\ result = "Success"
    /\ err = "none"
    /\ via = "loop"
    /\ overlay = FALSE
    /\ noGateSeen = 0
    /\ tried = <<>>
    /\ hit = 0
    /\ retryCount = 0
    /\ cookieBannerFound = FALSE
    /\ typedPass = <<>>
    /\ link = "none"
    /\ chrome = TRUE
    /\ flaws = {}
    /\ apc = "embed"
    /\ \E k \in 0..MaxShots :
         /\ shotsIn \in [1..k -> Kinds]
         /\ dimsIn \in [1..k -> Sizes]
    /\ pageBoxes = <<>>
    /\ ai = 1
    /\ pdfPages = <<>>
    /\ pdfBytes = "none"
    /\ upload = "none"
    /\ posted = "none"

PdfNext ==
    \/ CreatePDF_Page
    \/ CreatePDF_Save

PdfSpec == PdfInit /\ [][PdfNext]_vars

\* A finished conversion, for the specifications of the handlers.
Parked ==
    /\ rev \in Revisions
    /\ req = [email |-> TRUE, pw |-> FALSE, special |-> FALSE]
    /\ doc = [n |-> 1, label |-> "none", twin |-> FALSE, email |-> "none",
              pass |-> FALSE, clears |-> TRUE, submit |-> "none", nextSel |-> 0,
              nextOnLast |-> FALSE, consent |-> "none", again |-> FALSE]
    /\ pc = "done"
    /\ browser = "closed"
    /\ gateShown = FALSE
    /\ cur = 1
    /\ screenshots = <<>>
    /\ lastPage = Null
    /\ advances = 0
    /\ result = "none"
    /\ err = "none"
    /\ via = "none"
    /\ overlay = FALSE
    /\ noGateSeen = 0
    /\ tried = <<>>
    /\ hit = 0
    /\ retryCount = 0
    /\ cookieBannerFound = FALSE
    /\ typedPass = <<>>
    /\ link = "none"
    /\ chrome = TRUE
    /\ flaws = {}
    /\ apc = "idle"
    /\ shotsIn = <<>>
    /\ dimsIn = <<>>
    /\ pageBoxes = <<>>
    /\ ai = 1
    /\ pdfPages = <<>>
    /\ pdfBytes = "none"
    /\ upload = "none"
    /\ posted = "none"

\* The /slack/events handler under any sequence of message events.
EventInit == Parked /\ HandlersIdle

EventNext ==
    \/ HandleEvent
    \/ ConversionSettles

EventSpec == EventInit /\ [][EventNext]_vars

\* The app.message handler of part_004 with MaxRequests requests in flight.
TempInit == Parked /\ HandlersIdle /\ rev = "p004"

TempNext ==
    \/ Temp_Write
    \/ Temp_Read
    \/ Temp_Unlink

TempSpec == TempInit /\ [][TempNext]_vars

TypeOK ==
    /\ pc \in {"init", "setup", "email", "pass", "consent", "submit", "content",
               "capture", "loop",
               "wait", "fallback", "finally", "done"}
    /\ browser \in {"none", "open", "closed"}
    /\ gateShown \in BOOLEAN
    /\ cur \in 0..doc.n
    /\ Len(screenshots) <= ShotCap
    /\ advances \in 0..ShotCap
    /\ result \in {"none", "Success", "Failure"}
    /\ via \in {"none", "loop", "single", "fallback", "direct"}
    /\ gateShown <=> (cur = 0)
    /\ overlay \in BOOLEAN
    /\ chrome \in BOOLEAN
    /\ flaws \subseteq {"chrome", "loading"}
    /\ hit \in 0..Len(tried)
    /\ noGateSeen \in 0..1
    /\ apc \in {"idle", "embed", "returned", "thrown"}
    /\ pdfBytes \in {"none", "ok", "empty", "short", "nomagic"}
    /\ upload \in {"none", "assembled", "failed"}
    /\ posted = "none" \/ upload # "assembled"

(***************************************************************************)
(* Properties.                                                             *)
(***************************************************************************)

\* The pagination loop returned its capture list to the caller.
LoopReturned == result = "Success" /\ via = "loop"

\* ... and no browser error cut the loop short.
LoopCompleted == LoopReturned /\ err = "none"

\* The capture list holds pages 1..k in order, one capture each.
PagesInOrder(k) ==
    /\ Len(screenshots) = k
    /\ \A i \in 1..Len(screenshots) : screenshots[i].page = i

\* C1: when the invocation has returned or thrown, a browser that was
\* launched has been closed.
C1_BrowserClosedOnExit == pc = "done" => browser # "open"

\* C2: for a document of n pages with a distinct label on every page, the
\* key-advance loop returns exactly n captures, capture i taken on page i.
C2_ExactlyNCaptures ==
    (rev \in KeyLoopRevs /\ LoopCompleted /\ doc.label = "exposed" /\ ~gateShown)
        => PagesInOrder(doc.n)

\* C3: for a single-page document the capture loop returns exactly one
\* capture, with or without a page label.
C3_SinglePageOneCapture ==
    (result = "Success" /\ via \in {"loop", "single"} /\ err = "none"
     /\ doc.n = 1 /\ ~gateShown)
        => Len(screenshots) = 1

\* C4: the capture list never holds two captures taken under the same page
\* label.
C4_NoDuplicateLabel ==
    \A i, j \in 1..Len(screenshots) :
        (i < j /\ Truthy(screenshots[i].label))
            => screenshots[i].label # screenshots[j].label

\* C5: without a page label, on pages with pairwise different rasters, the
\* key-advance loop returns exactly n captures: the raster comparison ends
\* it and the repeated raster is not appended.
C5_RasterTermination ==
    (rev \in KeyLoopRevs /\ LoopCompleted /\ doc.label = "none" /\ ~doc.twin
     /\ ~gateShown)
        => PagesInOrder(doc.n)

\* The key-advance loop runs on a site that exposes no page label.
NoLabelKeyLoop == rev \in KeyLoopRevs /\ doc.label = "none"

C7_NoPageDropped ==
    (rev \in KeyLoopRevs /\ LoopCompleted /\ ~gateShown)
        => Len(screenshots) >= doc.n

\* C8: every started conversion eventually ends, in Success or in Failure.
C8_EventuallyEnds == <>(pc = "done")

\* C9: a conversion that ends in Success holds no capture taken while a
\* gate form was displayed.
C9_NoCaptureOfGate ==
    result = "Success" => \A i \in 1..Len(screenshots) : screenshots[i].page # 0

\* C10: a site that shows no email form, or no passcode form although a
\* passcode came with the request, never makes the conversion fail for the
\* missing form.
C10_AbsentGateNoError ==
    /\ doc.email = "none" => err # "EmailFormNotFound"
    /\ (~doc.pass /\ req.pw) => err # "PasscodeFieldNotFound"

\* The revision's own search finds the email form the site shows.
EmailGateDetected ==
    CASE rev \in {"p003", "p006"} -> doc.email # "none"
      [] OTHER                    -> doc.email = "inline"

\* C11: when an email form is detected and DOCSEND_EMAIL is not set, the
\* invocation ends in Failure with the configuration error, with no capture
\* taken and the browser closed.
C11_MissingEmailCredential ==
    (pc = "done" /\ EmailGateDetected /\ ~req.email
     /\ err \notin {"LaunchFailed", "NavigationTimeout", "Timeout"})
        => /\ result = "Failure"
           /\ err = "EmailNotSet"
           /\ screenshots = <<>>
           /\ browser = "closed"

\* A passcode came with the request (part_006: the pw: token; part_007: the
\* document id the passcode is kept for).
PasscodeAvailable == (rev = "p006" /\ req.pw) \/ (rev = "p007" /\ req.special)

\* C12: when the site shows a passcode form and no passcode is available,
\* the conversion takes no capture and never ends in Success.
C12_MissingPasscode ==
    (doc.pass /\ ~PasscodeAvailable)
        => (result # "Success" /\ screenshots = <<>>)

\* C13: when the capture loop throws, the invocation still ends in Success
\* with exactly one capture, the fallback snapshot.
C13_FallbackSnapshot ==
    (pc = "done" /\ (via = "fallback" \/ err = "CaptureFailed"))
        => (result = "Success" /\ Len(screenshots) = 1)

C15_EmptyListNoPages ==
    (apc = "returned" /\ Len(shotsIn) = 0) => Len(pdfPages) = 0

C17_ReturnedBufferIsPdf == apc = "returned" => pdfBytes = "ok"

\* C18: on a site whose consent overlay comes back after the email
\* submission, no capture is taken of the viewer with the overlay on it.
C18_ConsentReappears ==
    (doc.again /\ ~gateShown /\ Len(screenshots) >= 1) => ~overlay

\* C19: a capture is taken only after two evaluations in a row found no gate
\* form.
C19_TwoCleanObservations == Len(screenshots) >= 1 => noGateSeen >= 2

\* C20: when convertDocSendToPDF returned a downloaded PDF,
\* createPDFFromScreenshots is not called and nothing but the downloaded
\* bytes is uploaded.
C20_DirectDownloadVerbatim ==
    via = "direct" => (apc = "idle" /\ upload \in {"none", "downloaded"})

\* Position of the conversion in the order Init, SessionOpen, GateResolving,
\* CaptureLoop, Assembling, Done; 6 stands for Failed.
Phase ==
    CASE result = "Failure" \/ apc = "thrown" \/ upload = "failed" -> 6
      [] upload = "assembled"                                     -> 5
      [] apc \in {"embed", "returned"}                            -> 4
      [] via = "direct"                                           -> 2
      [] pc = "init"                                              -> 0
      [] pc = "setup"                                             -> 1
      [] pc \in {"email", "pass", "consent", "submit", "content"} -> 2
      [] OTHER                                                    -> 3

\* The same position in the next state.
PhaseNext ==
    CASE result' = "Failure" \/ apc' = "thrown" \/ upload' = "failed" -> 6
      [] upload' = "assembled"                                       -> 5
      [] apc' \in {"embed", "returned"}                              -> 4
      [] via' = "direct"                                             -> 2
      [] pc' = "init"                                                -> 0
      [] pc' = "setup"                                               -> 1
      [] pc' \in {"email", "pass", "consent", "submit", "content"}   -> 2
      [] OTHER                                                       -> 3

\* C21: a conversion stays in its state or moves to the next one in the
\* order, or to Failed; only the downloaded PDF goes from GateResolving
\* straight to Assembling; Done and Failed are never left.
C21_StateOrder ==
    [][\/ PhaseNext = Phase
       \/ PhaseNext = Phase + 1 /\ Phase < 5
       \/ PhaseNext = 6 /\ Phase # 5
       \/ Phase = 2 /\ via = "direct" /\ PhaseNext = 4]_vars

C21_Witness == upload = "assembled" /\ Len(pdfPages) >= 2 /\ doc.email # "none"

\* The thread holds a final outcome: the uploaded PDF or the failure text.
FinalOutcome == upload = "assembled" \/ posted # "none"

\* C24: every started conversion eventually leaves a final outcome in the
\* thread.
C24_ExactlyOneOutcome == <>FinalOutcome

\* C25: the failure text posted in the thread is the one fixed sentence,
\* whatever the error was.
C25_GenericFailureText == posted \in {"none", "Sorry"}

\* Place of a submission strategy in the order text-matched button, generic
\* submit selector, Enter key.
Rank(st) == CASE st = "text" -> 1 [] st = "css" -> 2 [] OTHER -> 3

\* C26: the submission strategies run in the order text, selector, Enter,
\* and none runs after the first one that clicked or pressed.
C26_CascadeStopsAtFirstHit ==
    /\ \A i, j \in 1..Len(tried) : i < j => Rank(tried[i]) < Rank(tried[j])
    /\ hit # 0 => Len(tried) = hit

\* C27: no capture is taken with header, footer or toolbar visible.
C27_ChromeHiddenAtCapture == "chrome" \notin flaws

\* C28: no capture and no comparison is made while the loading indicator of
\* a page transition is still shown.
C28_SettledBeforeLook == "loading" \notin flaws

\* C29: no capture of zero bytes is in the capture list.
C29_NoEmptyCapture ==
    \A i \in 1..Len(screenshots) : screenshots[i].raster # ZeroBytes

\* C30: a round of the consent loop never fails the conversion; the loop is
\* left with the first click of the accept control, and at the latest after
\* maxRetries rounds without one.
C30_ConsentLoopBounded ==
    [][pc = "consent" =>
          /\ result' = "none"
          /\ retryCount' <= maxRetries
          /\ cookieBannerFound' => pc' # "consent"
          /\ retryCount' = maxRetries => pc' # "consent"]_vars

C30_Witness ==
    /\ retryCount = maxRetries /\ ~cookieBannerFound
    /\ result = "Success" /\ pc = "done"

\* C22: whatever message events arrive, in whatever order, and whether or
\* not a conversion is still in flight, convertDocSendToPDF is started at
\* most once for one client_msg_id and one DocSend URL.
C22_StartedAtMostOnce == \A k \in Keys : started[k] <= 1

C22_Witness ==
    /\ delivered = MaxEvents
    /\ \E k \in Keys : started[k] = 1 /\ k \notin running
    /\ Cardinality(processedMessages) = 1

\* C23: the upload of a request reads no PDF but the one of its own
\* conversion.
C23_NoInterference == \A r \in Requests : sent[r] \in {Null, r}

\* C31: the fallback is entered only from capturePages of part_006 (its
\* start, an iteration or the wait after a key press); it is left at once
\* for the finally clause, with one snapshot or with Failure; from the
\* finally clause the conversion only ends, so the fallback is never
\* entered twice; and the conversion ends with the browser closed.
C31_FallbackOnce ==
    [][/\ (pc' = "fallback" /\ pc # "fallback") =>
             (rev = "p006" /\ pc \in {"capture", "loop", "wait"})
       /\ pc = "fallback" =>
             /\ pc' = "finally"
             /\ \/ result' = "Failure" /\ err' = "FallbackFailed"
                \/ result' = "Success" /\ via' = "fallback" /\ Len(screenshots') = 1
       /\ pc = "finally" => pc' = "done"
       /\ (pc = "finally" /\ err = "FallbackFailed") =>
             (result' = "Failure" /\ browser' = "closed")
       /\ pc = "done" => pc' = "done"]_vars

C31_Witness ==
    /\ pc = "done" /\ err = "FallbackFailed"
    /\ result = "Failure" /\ browser = "closed"

\* C32: in a returned PDF, page i is drawn from element i of the argument,
\* is as wide and as high as that image, and shows the image at (0,0) in
\* its full size.
C32_OrderAndGeometry ==
    (apc = "returned" /\ Len(shotsIn) >= 1) =>
        /\ Len(pageBoxes) = Len(shotsIn)
        /\ \A i \in 1..Len(shotsIn) :
             /\ pdfPages[i] = i
             /\ pageBoxes[i].w = dimsIn[i].w /\ pageBoxes[i].h = dimsIn[i].h
             /\ pageBoxes[i].x = 0 /\ pageBoxes[i].y = 0
             /\ pageBoxes[i].iw = dimsIn[i].w /\ pageBoxes[i].ih = dimsIn[i].h

C32_Witness ==
    /\ apc = "returned" /\ Len(shotsIn) >= 2
    /\ dimsIn[1] # dimsIn[2]
    /\ pageBoxes[1].w # pageBoxes[2].w

\* C33: every passcode typed into a passcode field is the passcode that
\* came with the request, whatever the URL of the document.
C33_PasscodeFromInputOnly ==
    \A i \in 1..Len(typedPass) : typedPass[i] = Supplied(req)

\* The email-and-passcode form took the passcode, its submission cleared
\* the gate, and the passcode was typed nowhere else.
CombinedFormCleared ==
    /\ doc.email # "none" /\ doc.pass /\ req.pw
    /\ Len(typedPass) = 1 /\ ~gateShown

\* C38: a conversion whose email-and-passcode form took the passcode and
\* cleared the gate does not run the passcode workflow again: it does not
\* fail for a passcode field that is no longer there.
C38_PasscodeOnce ==
    (CombinedFormCleared /\ pc \in {"finally", "done"})
        => err # "PasscodeFieldNotFound"

\* The latest request failed the signature check.
BadSignature(r) == r.sig \in {"missing", "stale", "wrongLength", "wrong"}

\* C34: a request that fails the signature check is answered with 401 and
\* changes nothing else.
C34_Unverified401 ==
    [][(delivered' # delivered /\ BadSignature(lastReq')) =>
          /\ effects' = <<"401">>
          /\ UNCHANGED <<processedMessages, started, running, failedKeys,
                         seen, startedFor>>]_vars

\* The responses among the effects of a request.
Responses(fx) == {i \in 1..Len(fx) : fx[i] \in {"401", "500", "challenge", "200"}}

\* C35: every request gets exactly one response; where a conversion is
\* started the response is the 200 and comes first; a url_verification
\* request gets its challenge and starts nothing.
C35_AckBeforeConversion ==
    delivered >= 1 =>
        /\ Cardinality(Responses(effects)) = 1
        /\ (\E i \in 1..Len(effects) : effects[i] = "start") => effects[1] = "200"
        /\ (lastReq.sig = "valid" /\ lastReq.type = "url_verification")
              => effects = <<"challenge">>

C35_Witness == effects = <<"200", "add", "start">> /\ lastReq.key \in running

\* C36: processedMessages never loses a key; the key of a failed
\* conversion stays in it, and the conversion is not started again.
C36_KeysOnlyGrow ==
    [][/\ processedMessages \subseteq processedMessages'
       /\ \A k \in failedKeys' : k \in processedMessages' /\ started'[k] = 1]_vars

C36_Witness ==
    /\ lastReq.key \in failedKeys
    /\ effects = <<"200", "skip">>
    /\ started[lastReq.key] = 1

\* C37: every message with a DocSend URL that was handled has a conversion
\* of its own, started by one of its events.
C37_OnlyDuplicatesSuppressed == seen \subseteq startedFor

\* C39: a direct download that fails leaves no result and no error behind
\* and is followed by the capture loop on the same page; what the
\* conversion then returns is what the loop captured.
C39_DownloadFallsBack ==
    /\ (link = "failed" /\ pc = "loop" /\ screenshots = <<>>)
          => (result = "none" /\ err = "none")
    /\ link = "failed" => via # "direct"
    /\ (link = "failed" /\ result = "Success")
          => (via = "loop" /\ Len(screenshots) >= 1)

C39_Witness ==
    /\ link = "failed" /\ pc = "done"
    /\ result = "Success" /\ Len(screenshots) >= 2

====
